---------------------------- MODULE Spec2Model ----------------------------
(***************************************************************************)
(* A model of the simple-xml crate (src/src/lib.rs): the recursive-descent *)
(* parser load_from_slice with its call stack made explicit, the root      *)
(* check validate_root, the two serializers and the tree accessors.        *)
(*                                                                         *)
(* Text is a sequence of one-character strings; every index below is a     *)
(* 0-based byte offset as in the Rust source, and Slice(s, a, b) is the     *)
(* Rust slice s[a..b].  A Rust panic (slice out of range or inverted,      *)
(* unwrap of None) is the result kind "panic".                             *)
(***************************************************************************)
EXTENDS Integers, Sequences, FiniteSets, TLC

(***************************************************************************)
(* Bounds of the model.                                                    *)
(***************************************************************************)
\* the number of fragments an input document is assembled from
MaxTok == 4
\* the length of the character-level inputs
MaxChars == 4
\* the number of nodes of a tree built through the constructors
MaxNodes == 3

(***************************************************************************)
(* Text helpers: str::find, slicing, str::trim, str::ends_with.            *)
(***************************************************************************)
\* Option::None of str::find
None == -1

\* placeholder position carried by every error
NoPos == 999

Whitespace == {" ", "\t", "\n", "\r"}

Min(S) == CHOOSE x \in S : \A y \in S : x <= y

\* s[a..b]; the caller checks a <= b <= Len(s) (Rust panics otherwise)
Slice(s, a, b) == SubSeq(s, a + 1, b)

\* s[a..]
SliceFrom(s, a) == SubSeq(s, a + 1, Len(s))

\* Whether s[a..b] is a valid Rust slice of s
SliceOk(s, a, b) == a >= 0 /\ a <= b /\ b <= Len(s)

\* str::find: the offset of the first occurrence of pat in s, or None
Find(s, pat) ==
    LET hits == {i \in 0..(Len(s) - Len(pat)) : Slice(s, i, i + Len(pat)) = pat}
    IN  IF hits = {} THEN None ELSE Min(hits)

\* str::trim
Trim(s) ==
    LET keep == {i \in 1..Len(s) : s[i] \notin Whitespace}
    IN  IF keep = {} THEN <<>>
        ELSE SubSeq(s, Min(keep), CHOOSE x \in keep : \A y \in keep : y <= x)

\* str::ends_with for a one-character pattern
EndsWith(s, c) == Len(s) > 0 /\ s[Len(s)] = c

(***************************************************************************)
(* The tag-header splitter (mod split_unquoted): split on the separator,   *)
(* except inside double quotes; an unterminated quote runs to the end.     *)
(***************************************************************************)
RECURSIVE SplitFrom(_, _, _, _, _)
SplitFrom(s, c, i, cur, in_quotes) ==
    IF i > Len(s) THEN <<cur>>
    ELSE IF s[i] = "\"" THEN SplitFrom(s, c, i + 1, Append(cur, s[i]), ~in_quotes)
    ELSE IF s[i] = c /\ ~in_quotes THEN <<cur>> \o SplitFrom(s, c, i + 1, <<>>, FALSE)
    ELSE SplitFrom(s, c, i + 1, Append(cur, s[i]), in_quotes)

SplitUnquoted(s, c) == SplitFrom(s, c, 1, <<>>, FALSE)

(***************************************************************************)
(* The tree model.                                                         *)
(***************************************************************************)
\* HashMap::new()
EmptyMap == <<>>

\* HashMap::insert
MapInsert(m, k, v) == [x \in DOMAIN m \cup {k} |-> IF x = k THEN v ELSE m[x]]

\* struct Node
Node(tag, attributes, nodes, content) ==
    [tag |-> tag, attributes |-> attributes, nodes |-> nodes, content |-> content]

\* the node validate_root substitutes for "no element"
Sentinel == Node(<<>>, EmptyMap, EmptyMap, <<>>)

\* PushNode putting the new child first in its group
PushNodeFront(nodes, node) ==
    MapInsert(nodes, node.tag,
              <<node>> \o (IF node.tag \in DOMAIN nodes THEN nodes[node.tag] ELSE <<>>))

\* nodes.entry(node.tag.clone()).or_insert(Vec::with_capacity(1)).push(node)
PushNode(nodes, node) ==
    MapInsert(nodes, node.tag,
              Append(IF node.tag \in DOMAIN nodes THEN nodes[node.tag] ELSE <<>>, node))


(***************************************************************************)
(* Results of load_from_slice: Result<Payload, Error>, or a panic.         *)
(* Option<Node> is a sequence of length at most one.  A slice is the text  *)
(* together with the address of its first byte (its offset in the input),  *)
(* which is what as_ptr() compares.                                        *)
(***************************************************************************)
NoErr == [kind |-> "-", text |-> <<>>, pos |-> 0]

Error(kind, text) == [kind |-> kind, text |-> text, pos |-> NoPos]

NoRet ==
    [kind |-> "-", prolog |-> <<>>, node |-> <<>>, remaining |-> <<>>,
     remaining_ptr |-> 0, err |-> NoErr]

\* Ok(Payload { prolog, node, remaining })
OkPayload(prolog, node, remaining, remaining_ptr) ==
    [kind |-> "ok", prolog |-> prolog, node |-> node, remaining |-> remaining,
     remaining_ptr |-> remaining_ptr, err |-> NoErr]

\* Err(e)
ErrPayload(e) == [NoRet EXCEPT !.kind = "err", !.err = e]

\* a panic unwinding through the call
PanicPayload == [NoRet EXCEPT !.kind = "panic"]

(***************************************************************************)
(* load_from_slice, lines 139-161: the attribute loop over the header      *)
(* tokens after the tag name.                                              *)
(***************************************************************************)
RECURSIVE ParseAttributes(_, _)
ParseAttributes(parts, attributes) ==
    IF parts = <<>> THEN [kind |-> "ok", attributes |-> attributes, err |-> NoErr]
    ELSE
      LET part == Head(parts)
          equal_sign == Find(part, <<"=">>)
      IN  IF part = <<"/">>
          THEN [kind |-> "ok", attributes |-> attributes, err |-> NoErr]
          ELSE IF equal_sign = None
          THEN [kind |-> "err", attributes |-> attributes,
                err |-> Error("MissingAttributeValue", part)]
          ELSE
            LET k == Slice(part, 0, equal_sign)
                v == SliceFrom(part, equal_sign)
            IN  IF ~SliceOk(v, 1, 2)
                THEN [kind |-> "panic", attributes |-> attributes, err |-> NoErr]
                ELSE IF v[2] = "\"" /\ v[Len(v)] = "\""
                THEN IF ~SliceOk(v, 2, Len(v) - 1)
                     THEN [kind |-> "panic", attributes |-> attributes, err |-> NoErr]
                     ELSE ParseAttributes(Tail(parts),
                              MapInsert(attributes, k, Slice(v, 2, Len(v) - 1)))
                ELSE [kind |-> "err", attributes |-> attributes,
                      err |-> Error("MissingQuotes", part)]

\* format!("</{}>", tag_name)
ClosingTagText(tag_name) == <<"<", "/">> \o tag_name \o <<">">>

\* FindClosingTag taking the last occurrence (str::rfind)
FindLastClosingTag(string, tag_name) ==
    LET pat == ClosingTagText(tag_name)
        hits == {i \in 0..(Len(string) - Len(pat)) : Slice(string, i, i + Len(pat)) = pat}
    IN  IF hits = {} THEN None ELSE CHOOSE x \in hits : \A y \in hits : y <= x

\* string.find(&format!("</{}>", tag_name))
FindClosingTag(string, tag_name) == Find(string, ClosingTagText(tag_name))

\* PiRest keeping the closing delimiter: &string[closing_del..]
PiRestKeepDel(string, closing_del) == SliceFrom(string, closing_del)

\* PiRest handing on the whole slice again
PiRestWhole(string, closing_del) == string

\* &string[closing_del + 1..], the slice a processing instruction hands on
PiRest(string, closing_del) == SliceFrom(string, closing_del + 1)

\* &string[closing_tag + tag_name.len() + 3..]
AfterClosingTag(string, closing_tag, tag_name) ==
    SliceFrom(string, closing_tag + Len(tag_name) + 3)

(***************************************************************************)
(* load_from_slice, lines 110-187: everything one call does before its     *)
(* first recursive call.  kind is                                          *)
(*   "text"  no "<" in the slice                       (lines 110-119)     *)
(*   "err"   a typed error                                                  *)
(*   "panic" a slice or unwrap that aborts                                  *)
(*   "pi"    a processing instruction, to be skipped   (lines 135-137)     *)
(*   "leaf"  a self-closing element                    (lines 164-175)     *)
(*   "open"  an element whose inner text is parsed next (lines 178-187)    *)
(***************************************************************************)
NoScan ==
    [kind |-> "-", err |-> NoErr, opening_del |-> 0, closing_del |-> 0,
     prolog |-> <<>>, tag_name |-> <<>>, attributes |-> EmptyMap, closing_tag |-> 0]

Scan(string) ==
    LET opening_del == Find(string, <<"<">>)
        closing_del == Find(string, <<">">>)
        found == [NoScan EXCEPT !.opening_del = opening_del, !.closing_del = closing_del]
    IN
    IF opening_del = None THEN [NoScan EXCEPT !.kind = "text"]
    ELSE IF closing_del = None
    THEN [NoScan EXCEPT !.kind = "err", !.err = Error("MissingClosingDelimiter", <<>>)]
    ELSE IF ~SliceOk(string, opening_del + 1, closing_del)
    THEN [found EXCEPT !.kind = "panic"]
    ELSE
      LET header == Slice(string, opening_del + 1, closing_del)
          tag_parts == SplitUnquoted(header, " ")
      IN
      IF tag_parts = <<>> THEN [found EXCEPT !.kind = "panic"]
      ELSE
        LET tag_name == Trim(Head(tag_parts))
            prolog == Trim(Slice(string, 0, opening_del))
            named == [found EXCEPT !.prolog = prolog, !.tag_name = tag_name]
        IN
        IF ~SliceOk(tag_name, 0, 1) THEN [named EXCEPT !.kind = "panic"]
        ELSE IF tag_name[1] = "?" THEN [named EXCEPT !.kind = "pi"]
        ELSE
          LET parsed == ParseAttributes(Tail(tag_parts), EmptyMap)
              attributed == [named EXCEPT !.attributes = parsed.attributes]
          IN
          IF parsed.kind = "panic" THEN [named EXCEPT !.kind = "panic"]
          ELSE IF parsed.kind = "err"
          THEN [named EXCEPT !.kind = "err", !.err = parsed.err]
          ELSE IF EndsWith(header, "/") THEN [attributed EXCEPT !.kind = "leaf"]
          ELSE
            LET closing_tag == FindClosingTag(string, tag_name)
            IN
            IF closing_tag = None
            THEN [named EXCEPT !.kind = "err",
                               !.err = Error("MissingClosingTag", tag_name)]
            ELSE IF ~SliceOk(string, closing_del + 1, closing_tag)
            THEN [attributed EXCEPT !.kind = "panic"]
            ELSE [attributed EXCEPT !.kind = "open", !.closing_tag = closing_tag]


(***************************************************************************)
(* Input documents: up to MaxTok fragments in any order, and every text of *)
(* up to MaxChars characters over the alphabet of the delimiters.          *)
(***************************************************************************)
OpenA == <<"<", "a", ">">>
CloseA == <<"<", "/", "a", ">">>
ElemBx == <<"<", "b", ">", "x", "<", "/", "b", ">">>
LeafBk == <<"<", "b", " ", "k", "=", "\"", "v", "\"", " ", "/", ">">>
TextX == <<"x">>
DeclP == <<"<", "?", "p", "?", ">">>

Fragments == {OpenA, CloseA, ElemBx, LeafBk, TextX, DeclP}

Alphabet == {"<", ">", " ", "="}

RECURSIVE Flatten(_)
Flatten(ss) == IF ss = <<>> THEN <<>> ELSE Head(ss) \o Flatten(Tail(ss))

Inputs ==
    {Flatten(ts) : ts \in UNION {[1..n -> Fragments] : n \in 0..MaxTok}}
    \cup UNION {[1..n -> Alphabet] : n \in 0..MaxChars}

\* the declarations put in front of an input
Decls == {DeclP, <<"<", "?", "x", " ", "y", "?", ">">>}

(***************************************************************************)
(* State.                                                                  *)
(***************************************************************************)
VARIABLES
    input,    \* the text given to from_string
    pc,       \* "idle", "parsing", "done": where the from_string call is
    stack,    \* the frames of the nested load_from_slice calls, innermost last
    result,   \* what from_string returned
    mode,     \* "first" call, or the call after "display" or after "decl"
    first,    \* the result of the first call, kept for comparison
    node,     \* the node the caller holds (<<>>: none yet), worked on through
              \* the tree operations
    child     \* a second node the caller holds, to be added to the first

vars == <<input, pc, stack, result, mode, first, node, child>>

NoResult == [kind |-> "-", node |-> Sentinel, err |-> NoErr]

\* one activation of load_from_slice
NewFrame(string, ptr) ==
    [string |-> string, ptr |-> ptr, pc |-> "call", sc |-> NoScan,
     content |-> <<>>, nodes |-> EmptyMap, buf |-> <<>>, buf_ptr |-> 0,
     ret |-> NoRet]

Top == stack[Len(stack)]

Caller == stack[Len(stack) - 1]

SetTop(f) == [stack EXCEPT ![Len(stack)] = f]

\* pop the returning frame and continue its caller as f
ReturnTo(f) == [SubSeq(stack, 1, Len(stack) - 1) EXCEPT ![Len(stack) - 1] = f]

Returned(f, payload) == [f EXCEPT !.pc = "ret", !.ret = payload]

\* the address of a suffix of the frame's slice
PtrOf(f, suffix) == f.ptr + Len(f.string) - Len(suffix)

\* lines 209-223: the element with its inner text parsed
Finish(f) ==
    LET remaining == AfterClosingTag(f.string, f.sc.closing_tag, f.sc.tag_name)
    IN  Returned(f, OkPayload(f.sc.prolog,
                    <<Node(f.sc.tag_name, f.sc.attributes, f.nodes,
                           Trim(f.content \o f.buf))>>,
                    remaining, PtrOf(f, remaining)))

\* lines 164-175: the self-closing element
Leaf(f, sc) ==
    LET remaining == SliceFrom(f.string, sc.closing_del + 1)
    IN  Returned(f, OkPayload(sc.prolog,
                    <<Node(sc.tag_name, sc.attributes, EmptyMap, <<>>)>>,
                    remaining, PtrOf(f, remaining)))

\* lines 183-187: the state of the child loop before its first iteration
EnterLoop(f, sc) ==
    [f EXCEPT !.pc = "loop", !.sc = sc, !.content = <<>>, !.nodes = EmptyMap,
              !.buf = Slice(f.string, sc.closing_del + 1, sc.closing_tag),
              !.buf_ptr = f.ptr + sc.closing_del + 1]

\* lines 190-207: one iteration of the child loop, given what the call returned
LoopBody(f, payload) ==
    IF payload.kind # "ok" THEN Returned(f, payload)
    ELSE
      LET g == IF payload.node # <<>>
               THEN [f EXCEPT !.nodes = PushNode(f.nodes, payload.node[1])]
               ELSE f
      IN  IF payload.remaining_ptr = g.buf_ptr THEN Finish(g)
          ELSE [g EXCEPT !.content = @ \o payload.prolog,
                         !.buf = payload.remaining,
                         !.buf_ptr = payload.remaining_ptr]

\* validate_root
validate_root(root) ==
    IF root.kind = "panic" THEN [NoResult EXCEPT !.kind = "panic"]
    ELSE IF root.kind = "err" THEN [NoResult EXCEPT !.kind = "err", !.err = root.err]
    ELSE IF Len(root.prolog) # 0
    THEN [NoResult EXCEPT !.kind = "err", !.err = Error("ContentOutsideRoot", <<>>)]
    ELSE [NoResult EXCEPT !.kind = "ok",
                          !.node = IF root.node # <<>> THEN root.node[1] ELSE Sentinel]

(***************************************************************************)
(* Actions of the parser.                                                  *)
(***************************************************************************)
\* from_string(text): the outermost load_from_slice call is made
Call(text) ==
    /\ input' = text
    /\ stack' = <<NewFrame(text, 0)>>
    /\ pc' = "parsing"

\* from_string on a text drawn from the set
FromStringOf(texts) ==
    /\ pc = "idle"
    /\ \E text \in texts : Call(text)
    /\ UNCHANGED <<result, mode, first, node, child>>

FromString == FromStringOf(Inputs)

\* where the innermost call is: at its start, at the head of its child loop,
\* or returning
AtCall == pc = "parsing" /\ Len(stack) > 0 /\ Top.pc = "call"

AtLoop == pc = "parsing" /\ Len(stack) > 0 /\ Top.pc = "loop"

AtReturn == pc = "parsing" /\ Len(stack) > 0 /\ Top.pc = "ret"

\* the stack once the innermost call has run up to its first recursive
\* call, or to its return
AfterScan ==
    LET sc == Scan(Top.string)
    IN  CASE sc.kind = "text" ->
               SetTop(Returned(Top, OkPayload(<<>>, <<>>, Top.string, Top.ptr)))
          [] sc.kind = "err" -> SetTop(Returned(Top, ErrPayload(sc.err)))
          [] sc.kind = "panic" -> SetTop(Returned(Top, PanicPayload))
          [] sc.kind = "pi" ->
               LET rest == PiRest(Top.string, sc.closing_del)
               IN  Append(SetTop([Top EXCEPT !.pc = "pi", !.sc = sc]),
                          NewFrame(rest, PtrOf(Top, rest)))
          [] sc.kind = "leaf" -> SetTop(Leaf(Top, sc))
          [] sc.kind = "open" -> SetTop(EnterLoop(Top, sc))

\* load_from_slice up to its first recursive call, or to its return
LoadFromSlice ==
    /\ AtCall
    /\ stack' = AfterScan
    /\ UNCHANGED <<input, pc, result, mode, first, node, child>>

\* line 190: the loop calls load_from_slice(buf)
LoopCall ==
    /\ AtLoop
    /\ Len(Top.buf) # 0
    /\ stack' = Append(stack, NewFrame(Top.buf, Top.buf_ptr))
    /\ UNCHANGED <<input, pc, result, mode, first, node, child>>

\* line 189: the loop ends on an empty buffer
LoopExit ==
    /\ AtLoop
    /\ Len(Top.buf) = 0
    /\ stack' = SetTop(Finish(Top))
    /\ UNCHANGED <<input, pc, result, mode, first, node, child>>

\* a call made by the loop returns: the rest of the iteration
ReturnToLoop ==
    /\ AtReturn /\ Len(stack) > 1 /\ Caller.pc = "loop"
    /\ stack' = ReturnTo(LoopBody(Caller, Top.ret))
    /\ UNCHANGED <<input, pc, result, mode, first, node, child>>

\* line 136: the call made past a processing instruction returns
ReturnToPi ==
    /\ AtReturn /\ Len(stack) > 1 /\ Caller.pc = "pi"
    /\ stack' = ReturnTo(Returned(Caller, Top.ret))
    /\ UNCHANGED <<input, pc, result, mode, first, node, child>>

\* the outermost call returns to validate_root
ValidateRoot ==
    /\ AtReturn /\ Len(stack) = 1
    /\ result' = validate_root(Top.ret)
    /\ stack' = <<>>
    /\ pc' = "done"
    /\ UNCHANGED <<input, mode, first, node, child>>

ParserStep ==
    \/ LoadFromSlice
    \/ LoopCall
    \/ LoopExit
    \/ ReturnToLoop
    \/ ReturnToPi
    \/ ValidateRoot


(***************************************************************************)
(* The serializers.  A HashMap iterates in an arbitrary order, so a node   *)
(* has a set of renderings: one for every order of its attributes and of   *)
(* its children groups.                                                    *)
(***************************************************************************)
\* the orders in which a HashMap with key set S may iterate
IterOrders(S) ==
    {p \in [1..Cardinality(S) -> S] : \A i, j \in DOMAIN p : i # j => p[i] # p[j]}

\* format!(" {}=\"{}\"", k, v)
AttrText(k, v) == <<" ">> \o k \o <<"=", "\"">> \o v \o <<"\"">>

\* attributes.iter().map(...).collect::<String>()
AttrTexts(attributes) ==
    {Flatten([i \in DOMAIN p |-> AttrText(p[i], attributes[p[i]])]) :
        p \in IterOrders(DOMAIN attributes)}

\* nodes.iter().flat_map(|(_, nodes)| nodes.iter())
ChildOrders(nodes) ==
    {Flatten([i \in DOMAIN p |-> nodes[p[i]]]) : p \in IterOrders(DOMAIN nodes)}

\* " ".repeat(n)
Spaces(n) == [i \in 1..n |-> " "]

\* the unit of indentation of to_string_pretty
IndentUnit == 4

RECURSIVE Display(_), DisplayAll(_)
\* impl Display for Node: the renderings of a node
Display(n) ==
    IF n.tag = <<>> THEN {<<>>}
    ELSE IF Cardinality(DOMAIN n.nodes) + Len(n.content) = 0
    THEN {<<"<">> \o n.tag \o a \o <<"/", ">">> : a \in AttrTexts(n.attributes)}
    ELSE {<<"<">> \o n.tag \o ac[1] \o <<">">> \o ac[2] \o n.content
            \o ClosingTagText(n.tag) :
          ac \in AttrTexts(n.attributes)
                 \X UNION {DisplayAll(ns) : ns \in ChildOrders(n.nodes)}}

\* .map(|node| node.to_string()).collect::<String>()
DisplayAll(ns) ==
    IF ns = <<>> THEN {<<>>}
    ELSE {ht[1] \o ht[2] : ht \in Display(Head(ns)) \X DisplayAll(Tail(ns))}

RECURSIVE internal(_, _), internalAll(_, _)
\* to_string_pretty's internal(node, depth)
internal(n, depth) ==
    IF n.tag = <<>> THEN {<<>>}
    ELSE IF Cardinality(DOMAIN n.nodes) + Len(n.content) = 0
    THEN {Spaces(depth * IndentUnit) \o <<"<">> \o n.tag \o a \o <<"/", ">", "\n">> :
          a \in AttrTexts(n.attributes)}
    ELSE
      LET beg == IF Cardinality(DOMAIN n.nodes) = 0 THEN <<>> ELSE <<"\n">>
          end == IF Cardinality(DOMAIN n.nodes) = 0 THEN <<>>
                 ELSE Spaces(depth * IndentUnit)
      IN  {Spaces(depth * IndentUnit) \o <<"<">> \o n.tag \o ac[1] \o <<">">> \o beg
             \o ac[2] \o n.content \o end \o ClosingTagText(n.tag) \o <<"\n">> :
           ac \in AttrTexts(n.attributes)
                  \X UNION {internalAll(ns, depth + 1) : ns \in ChildOrders(n.nodes)}}

internalAll(ns, depth) ==
    IF ns = <<>> THEN {<<>>}
    ELSE {ht[1] \o ht[2] : ht \in internal(Head(ns), depth) \X internalAll(Tail(ns), depth)}

\* Node::to_string_pretty
to_string_pretty(n) == internal(n, 0)

(***************************************************************************)
(* Calls that follow the first from_string.                                *)
(***************************************************************************)
\* the returned tree is rendered (to_string) and the text parsed again
DisplayAndParse ==
    /\ pc = "done" /\ mode = "first" /\ result.kind = "ok"
    /\ \E text \in Display(result.node) : Call(text)
    /\ first' = result
    /\ result' = NoResult
    /\ mode' = "display"
    /\ UNCHANGED <<node, child>>

\* the same text is parsed again behind a leading declaration
DeclAndParse ==
    /\ pc = "done" /\ mode = "first"
    /\ \E d \in Decls : Call(d \o input)
    /\ first' = result
    /\ result' = NoResult
    /\ mode' = "decl"
    /\ UNCHANGED <<node, child>>

Init ==
    /\ input = <<>>
    /\ pc = "idle"
    /\ stack = <<>>
    /\ result = NoResult
    /\ mode = "first"
    /\ first = NoResult
    /\ node = <<>>
    /\ child = <<>>

Next ==
    \/ FromString
    \/ ParserStep
    \/ DisplayAndParse
    \/ DeclAndParse

Spec == Init /\ [][Next]_vars

(***************************************************************************)
(* The constructors and tree operations, called once from_string has       *)
(* returned.  The caller holds two nodes.                                  *)
(***************************************************************************)
TagNames == {<<"a">>, <<"b">>}

Contents == {<<>>, <<"x">>}

AttrMaps == {EmptyMap, MapInsert(EmptyMap, <<"k">>, <<"v">>)}

RECURSIVE NodeCount(_), NodeCountAll(_)
\* how many nodes a tree holds
NodeCount(n) ==
    1 + NodeCountAll(CHOOSE ns \in ChildOrders(n.nodes) : TRUE)

NodeCountAll(ns) ==
    IF ns = <<>> THEN 0 ELSE NodeCount(Head(ns)) + NodeCountAll(Tail(ns))

\* pub fn new
new(tag, content) == Node(tag, EmptyMap, EmptyMap, content)

\* pub fn new_filled
new_filled(tag, attributes, content, nodes) == Node(tag, attributes, nodes, content)

\* Node::add_node
add_node(self, n) == [self EXCEPT !.nodes = PushNode(self.nodes, n)]

\* Node::add_attribute
add_attribute(self, key, val) ==
    [self EXCEPT !.attributes = MapInsert(self.attributes, key, val)]

\* the children mappings a caller can build from the nodes it holds
ChildMaps ==
    {EmptyMap}
    \cup {MapInsert(EmptyMap, t, g) :
            t \in TagNames, g \in {<<>>} \cup {<<n>> : n \in {child[i] : i \in DOMAIN child}}}

\* from_string returned Ok(node): the caller holds the tree
TakeResult ==
    /\ pc = "done" /\ result.kind = "ok"
    /\ node = <<>>
    /\ node' = <<result.node>>
    /\ UNCHANGED <<input, pc, stack, result, mode, first, child>>

New ==
    /\ pc = "done"
    /\ \E tag \in TagNames, content \in Contents : child' = <<new(tag, content)>>
    /\ UNCHANGED <<input, pc, stack, result, mode, first, node>>

NewFilled ==
    /\ pc = "done"
    /\ \E tag \in TagNames, attributes \in AttrMaps, content \in Contents,
          nodes \in ChildMaps :
          node' = <<new_filled(tag, attributes, content, nodes)>>
    /\ UNCHANGED <<input, pc, stack, result, mode, first, child>>

AddNode ==
    /\ pc = "done"
    /\ node # <<>> /\ child # <<>>
    /\ NodeCount(node[1]) + NodeCount(child[1]) <= MaxNodes
    /\ node' = <<add_node(node[1], child[1])>>
    /\ UNCHANGED <<input, pc, stack, result, mode, first, child>>

AddAttribute ==
    /\ pc = "done"
    /\ node # <<>>
    /\ \E key \in {<<"k">>}, val \in {<<"v">>, <<"w">>} :
          node' = <<add_attribute(node[1], key, val)>>
    /\ UNCHANGED <<input, pc, stack, result, mode, first, child>>

TreeInputs == {<<>>, LeafBk, OpenA \o ElemBx \o CloseA, DeclP \o OpenA \o TextX \o CloseA}

\* from_string on one of a few documents
FromStringTree == FromStringOf(TreeInputs)

NextTree ==
    \/ FromStringTree
    \/ ParserStep
    \/ TakeResult
    \/ New
    \/ NewFilled
    \/ AddNode
    \/ AddAttribute

SpecTree == Init /\ [][NextTree]_vars


(***************************************************************************)
(* Properties.  Each is stated over the text given to from_string and what *)
(* it returned, without reference to the parser's own intermediate values  *)
(* wherever the property is about the input-result relation.               *)
(***************************************************************************)
Done == pc = "done"

\* the node from_string returned is exactly n
ReturnsNode(n) == result.kind = "ok" /\ result.node = n

\* from_string returned the typed error of the given kind
ReturnsError(kind) == result.kind = "err" /\ result.err.kind = kind

\* the text <t k="v"/>
SelfClosingText(t, k, v) == <<"<">> \o t \o AttrText(k, v) \o <<"/", ">">>

\* C1: from_string of <t k="v"/> returns Ok with the node of tag t, the one
\* attribute k -> v, no children and empty content.
C1_SelfClosingWithAttribute ==
    \A t \in TagNames, k \in {<<"k">>}, v \in {<<"v">>, <<"w">>} :
        (Done /\ input = SelfClosingText(t, k, v))
            => ReturnsNode(Node(t, MapInsert(EmptyMap, k, v), EmptyMap, <<>>))

RECURSIVE Descendants(_), DescendantsAll(_)
\* a node and every node below it
Descendants(n) ==
    {n} \cup UNION {DescendantsAll(ns) : ns \in ChildOrders(n.nodes)}

DescendantsAll(ns) ==
    IF ns = <<>> THEN {} ELSE Descendants(Head(ns)) \cup DescendantsAll(Tail(ns))

Markup == {"<", ">", "\""}

\* neither the content nor an attribute value of any node holds < > or "
FreeOfMarkup(tree) ==
    \A n \in Descendants(tree) :
        /\ \A i \in DOMAIN n.content : n.content[i] \notin Markup
        /\ \A k \in DOMAIN n.attributes :
              \A i \in DOMAIN n.attributes[k] : n.attributes[k][i] \notin Markup

\* C2: parsing the compact rendering of a tree that from_string returned
\* (text and attribute values free of markup) returns Ok with an equal tree.
C2_RoundTrip ==
    (Done /\ mode = "display" /\ FreeOfMarkup(first.node))
        => ReturnsNode(first.node)

RECURSIVE RootOffset(_)
\* The offset in s of the "<" of the root element: the first element that
\* is not a <?...> processing instruction.  None when s has no such element.
RootOffset(s) ==
    LET lt == Find(s, <<"<">>)
    IN  IF lt = None THEN None
        ELSE IF lt + 1 >= Len(s) \/ s[lt + 2] # "?" THEN lt
        ELSE LET gt == Find(SliceFrom(s, lt), <<">">>)
                 root == IF gt = None THEN None
                         ELSE RootOffset(SliceFrom(s, lt + gt + 1))
             IN  IF root = None THEN None ELSE lt + gt + 1 + root

RECURSIVE DirectText(_)
\* the text fragments of an s that holds text and <?...> processing
\* instructions only, concatenated in document order
DirectText(s) ==
    LET lt == Find(s, <<"<">>)
    IN  IF lt = None THEN s
        ELSE Slice(s, 0, lt)
                \o DirectText(SliceFrom(s, lt + Find(SliceFrom(s, lt), <<">">>) + 1))

\* Whether non-whitespace text lies before the root element of s
TextBeforeRoot(s) ==
    /\ RootOffset(s) # None
    /\ Trim(DirectText(Slice(s, 0, RootOffset(s)))) # <<>>

\* C3: when non-whitespace text lies before the root element, on either
\* side of leading processing instructions, from_string returns no tree
\* (the claim names the error: ContentOutsideRoot).
C3_TextBeforeRootIsAnError ==
    (Done /\ TextBeforeRoot(input)) => result.kind # "ok"

ErrorKinds ==
    {"ContentOutsideRoot", "MissingClosingTag", "MissingClosingDelimiter",
     "MissingAttributeValue", "MissingQuotes"}

\* a "<" of s has no ">" after it
UnclosedDelimiter(s) ==
    \E i \in DOMAIN s : s[i] = "<" /\ \A j \in DOMAIN s : j > i => s[j] # ">"

\* C4: from_string ends with Ok or one of the typed errors, never in an
\* abort; a "<" with no ">" after it gives MissingClosingDelimiter.
C4_TypedResult ==
    Done =>
        /\ result.kind \in {"ok", "err"}
        /\ result.kind = "err" => result.err.kind \in ErrorKinds
        /\ UnclosedDelimiter(input) => ReturnsError("MissingClosingDelimiter")

RECURSIVE OnlyTextAndDecls(_)
\* s holds text and <?...> processing instructions, and no element
OnlyTextAndDecls(s) ==
    LET lt == Find(s, <<"<">>)
    IN  IF lt = None THEN Find(s, <<">">>) = None
        ELSE /\ lt + 1 < Len(s) /\ s[lt + 2] = "?"
             /\ Find(Slice(s, 0, lt), <<">">>) = None
             /\ LET gt == Find(SliceFrom(s, lt), <<">">>)
                IN  gt # None /\ OnlyTextAndDecls(SliceFrom(s, lt + gt + 1))

\* C5: the content of a parsed element is the concatenation of the text
\* fragments directly inside it, trimmed once as a whole; none is dropped,
\* text before a processing instruction included.  Stated for the elements
\* <a>...</a> that hold text and processing instructions only.
C5_ContentKeepsEveryFragment ==
    \A inner \in {Slice(input, Len(OpenA), Len(input) - Len(CloseA))} :
        (/\ Done
         /\ Len(input) >= Len(OpenA) + Len(CloseA)
         /\ input = OpenA \o inner \o CloseA
         /\ OnlyTextAndDecls(inner))
            => /\ result.kind = "ok"
               /\ result.node.content = Trim(DirectText(inner))


\* what the caller can tell of a result: Ok with its tree, the kind of the
\* error, or the abort
Outcome(r) == [kind |-> r.kind, node |-> r.node, err |-> r.err.kind]

\* C6: from_string of a declaration <?...?> followed by s returns what
\* from_string of s returns: the same tree, or the same kind of error.
C6_DeclarationIsTransparent ==
    (Done /\ mode = "decl") => Outcome(result) = Outcome(first)

\* a tree with children was returned behind a leading declaration
C6_Witness ==
    /\ Done /\ mode = "decl"
    /\ result.kind = "ok"
    /\ result.node.nodes # EmptyMap

\* every child stored under key t has tag t
GroupedByTag(n) ==
    \A t \in DOMAIN n.nodes : \A i \in DOMAIN n.nodes[t] : n.nodes[t][i].tag = t

HasPrefix(s, p) == Len(s) >= Len(p) /\ SubSeq(s, 1, Len(p)) = p

HasSuffix(s, p) == Len(s) >= Len(p) /\ SubSeq(s, Len(s) - Len(p) + 1, Len(s)) = p

NodeBx == Node(<<"b">>, EmptyMap, EmptyMap, <<"x">>)

NodeBk == Node(<<"b">>, MapInsert(EmptyMap, <<"k">>, <<"v">>), EmptyMap, <<>>)

RECURSIVE OnlyKids(_), KidsOf(_)
\* s is a run of the child elements <b>x</b> and <b k="v" />, of text and of
\* processing instructions
OnlyKids(s) ==
    \/ s = <<>>
    \/ \E p \in {ElemBx, LeafBk, TextX, DeclP} :
          HasPrefix(s, p) /\ OnlyKids(SliceFrom(s, Len(p)))

\* the child elements of such an s, in the order their opening tags occur
KidsOf(s) ==
    IF s = <<>> THEN <<>>
    ELSE IF HasPrefix(s, ElemBx) THEN <<NodeBx>> \o KidsOf(SliceFrom(s, Len(ElemBx)))
    ELSE IF HasPrefix(s, LeafBk) THEN <<NodeBk>> \o KidsOf(SliceFrom(s, Len(LeafBk)))
    ELSE IF HasPrefix(s, TextX) THEN KidsOf(SliceFrom(s, Len(TextX)))
    ELSE KidsOf(SliceFrom(s, Len(DeclP)))

\* C7: every child of a parsed element is in exactly one group, the one
\* keyed by its own tag, and the children of a group are in the order their
\* opening tags occur in the document.
C7_ChildrenGroupedInOrder ==
    /\ \A i \in DOMAIN stack : GroupedByTag(stack[i])
    /\ (Done /\ result.kind = "ok")
          => \A n \in Descendants(result.node) : GroupedByTag(n)
    /\ \A inner \in {Slice(input, Len(OpenA), Len(input) - Len(CloseA))} :
          (/\ Done
           /\ HasPrefix(input, OpenA) /\ HasSuffix(SliceFrom(input, Len(OpenA)), CloseA)
           /\ OnlyKids(inner) /\ KidsOf(inner) # <<>>)
              => /\ result.kind = "ok"
                 /\ result.node.nodes = MapInsert(EmptyMap, <<"b">>, KidsOf(inner))

\* <a><b>x</b><b k="v" /></a> was parsed into a group b of two nodes
C7_Witness ==
    /\ Done /\ input = OpenA \o ElemBx \o LeafBk \o CloseA
    /\ result.kind = "ok"
    /\ <<"b">> \in DOMAIN result.node.nodes
    /\ Len(result.node.nodes[<<"b">>]) = 2

\* The element <a> that opens s holds, before the first </a>, the opening
\* tag of a child <a>, and a second </a> follows: the first </a> is the
\* child's.
SameTagChild(s) ==
    /\ HasPrefix(s, OpenA)
    /\ LET c1 == Find(s, CloseA)
       IN  /\ c1 # None
           /\ Find(Slice(s, Len(OpenA), c1), OpenA) # None
           /\ Find(SliceFrom(s, c1 + Len(CloseA)), CloseA) # None

\* the outermost load_from_slice call has returned to validate_root
RootReturned == pc = "parsing" /\ Len(stack) = 1 /\ stack[1].pc = "ret"

\* C9 as claimed: with a child of the same tag name inside, the call returns
\* a parent node, and the remaining slice starts right after the first
\* occurrence of the closing tag.
C9_Original ==
    (RootReturned /\ SameTagChild(input))
        => /\ stack[1].ret.kind = "ok"
           /\ stack[1].ret.node # <<>>
           /\ stack[1].ret.remaining
                = SliceFrom(input, Find(input, CloseA) + Len(CloseA))

\* C9 as amended: the end of an element is the first occurrence of </tag>;
\* the inner text parsed lies between the opening ">" and that occurrence,
\* and a returned node leaves the remaining slice right after it.  A child
\* opened with the parent's tag name directly in that inner text finds no
\* closing tag there: the call returns MissingClosingTag and no parent node.
C9_FirstClosingTagEndsElement ==
    /\ \A i \in DOMAIN stack :
          LET f == stack[i]
              pat == ClosingTagText(f.sc.tag_name)
              c == f.sc.closing_tag
          IN  f.sc.kind = "open" =>
                /\ Slice(f.string, c, c + Len(pat)) = pat
                /\ \A j \in 0..(c - 1) : Slice(f.string, j, j + Len(pat)) # pat
                /\ f.pc = "loop"
                      => HasSuffix(Slice(f.string, f.sc.closing_del + 1, c), f.buf)
                /\ (f.pc = "ret" /\ f.ret.kind = "ok")
                      => f.ret.remaining = SliceFrom(f.string, c + Len(pat))
    /\ \A i \in DOMAIN stack :
          (/\ i < Len(stack)
           /\ stack[i].pc = "loop" /\ stack[i + 1].pc = "ret"
           /\ HasPrefix(stack[i + 1].string,
                        <<"<">> \o stack[i].sc.tag_name \o <<">">>))
              => stack[i + 1].ret
                    = ErrPayload(Error("MissingClosingTag", stack[i].sc.tag_name))
    /\ (RootReturned /\ SameTagChild(input))
          => stack[1].ret = ErrPayload(Error("MissingClosingTag", <<"a">>))

\* the call on <a><a>...</a>...</a> has returned, with an error
C9_Witness ==
    /\ RootReturned /\ SameTagChild(input)
    /\ stack[1].ret.kind = "err"

\* a step that makes a recursive call hands it a strictly shorter slice,
\* and a step that ends an iteration of the child loop either leaves the
\* loop or replaces the buffer by a strictly shorter suffix of itself
Progress ==
    /\ (Len(stack) >= 1 /\ Len(stack') = Len(stack) + 1)
          => Len(stack'[Len(stack')].string) < Len(Top.string)
    /\ (Len(stack) >= 2 /\ Len(stack') = Len(stack) - 1 /\ Caller.pc = "loop")
          => LET g == stack'[Len(stack')]
             IN  \/ g.pc = "ret"
                 \/ /\ Len(g.buf) < Len(Caller.buf)
                    /\ HasSuffix(Caller.buf, g.buf)

\* The variant of the parser: a frame at its start weighs more than the
\* same frame in its loop, a loop at its head more than the same loop waiting
\* for the call it made, and a loop weighs by the length of its buffer.
FrameRank(f, innermost) ==
    CASE f.pc = "call" -> 2 * Len(f.string) + 2
      [] f.pc = "loop" -> 2 * Len(f.buf) + (IF innermost THEN 1 ELSE 0)
      [] f.pc = "pi" -> 1
      [] f.pc = "ret" -> 0

Rank(st) == [i \in DOMAIN st |-> FrameRank(st[i], i = Len(st))]

\* a comes before b in the lexicographic order, outermost frame first
LexLess(a, b) ==
    \E i \in 1..Len(b) :
        /\ \A j \in 1..(i - 1) : j <= Len(a) /\ a[j] = b[j]
        /\ i > Len(a) \/ a[i] < b[i]

\* every step of a running parse lowers the rank of the stack
Variant == stack # <<>> => LexLess(Rank(stack'), Rank(stack))

\* a running parse can take a step, and its calls nest no deeper than the
\* input is long
NotStuck ==
    pc = "parsing" =>
        /\ AtCall \/ AtLoop \/ AtReturn
        /\ AtReturn /\ Len(stack) > 1 => Caller.pc \in {"pi", "loop"}
        /\ Len(stack) <= Len(input) + 1

\* C10: every recursive call gets a strictly shorter slice, every iteration
\* of the child loop stops or shortens the buffer, and so from_string
\* returns: a running parse always has a step to take, and every step lowers
\* a rank that cannot be lowered for ever.
C10_ParsingTerminates ==
    /\ []NotStuck
    /\ [][Progress /\ Variant]_vars

\* behind a processing instruction, a child loop has consumed a child and
\* made a further call
C10_Witness ==
    /\ Len(stack) >= 3
    /\ stack[1].pc = "pi"
    /\ stack[2].pc = "loop" /\ stack[2].nodes # EmptyMap

\* the text opens with "<" and ends with "/>"
SelfClosed(text) ==
    /\ Len(text) >= 3
    /\ text[1] = "<" /\ text[Len(text) - 1] = "/" /\ text[Len(text)] = ">"

\* the nodes the caller holds
Held == {node[i] : i \in DOMAIN node} \cup {child[i] : i \in DOMAIN child}

\* C8: in every node reachable through new, new_filled, add_node,
\* add_attribute and from_string, a child stored under key t has tag t, and
\* a node with no child and empty content renders self-closing, compact and
\* pretty.  (The empty-tag node, which renders as empty text, is left out.)
C8_TreeInvariant ==
    \A h \in Held : \A n \in Descendants(h) :
        /\ GroupedByTag(n)
        /\ (n.tag # <<>> /\ NodeCount(n) = 1 /\ Len(n.content) = 0)
              => /\ \A text \in Display(n) : SelfClosed(text)
                 /\ \A text \in to_string_pretty(n) : SelfClosed(Trim(text))

=============================================================================
